---- MODULE Spec2Model ----
(***************************************************************************)
(* A model of gym_minigrid/minigrid.py: the Grid cell-occupancy structure  *)
(* and its transforms, the action enumeration of MiniGridEnv, its step     *)
(* state machine, its observation, its placement and its fingerprint.      *)
(*                                                                         *)
(* The specifications share the variables:                                 *)
(*   Spec         an environment of one scenario: reset() and step()       *)
(*   SpecActions  __init__ up to actions(), for bounded num_objs           *)
(*   SpecGrid     a new Grid under set and remove calls                    *)
(*   SpecView     a Grid with content under slice and rotate_left          *)
(*   SpecEncode   a Grid with content under encode, then decode            *)
(*   SpecVis      a Grid with content under process_vis                    *)
(*   SpecObs      gen_obs for a world grid and an agent                    *)
(*   SpecPlace    place_obj, one turn of its loop at a time                *)
(*   SpecHash     the input of hash() for two states                       *)
(*   SpecAgent    place_agent, one turn of the loop of place_obj at a time *)
(*   SpecWalls    a Grid with content under wall_rect                      *)
(*                                                                         *)
(* The environment runs in the non-human mode.  Its fields episode,        *)
(* reward, doors, mission and window are written but never read by the     *)
(* operations modelled, and are left out.  _reward and _end_conditions are *)
(* the scenario's: their results are inputs of step().                     *)
(***************************************************************************)
EXTENDS Integers, Sequences, FiniteSets, TLC

VARIABLES
    grid,         \* the Grid under operation (MiniGridEnv.grid in Spec)
    agent,        \* Agent fields: cur_pos, dir, carrying
    objs,         \* state of the named object instances (obj_instances)
    step_count,   \* MiniGridEnv.step_count
    last_action,  \* MiniGridEnv.last_action, <<>> for None
    action_done,  \* MiniGridEnv.action_done
    num_objs,     \* constructor argument num_objs, as a sequence of <<type, count>>
    actions,      \* the Actions enumeration built by MiniGridEnv.actions
    call,         \* the last call made and what it went through
    pre,          \* the state the last call started from
    ret,          \* what the last call returned
    err           \* the exception the last call raised, "none" if it returned

vars == <<grid, agent, objs, step_count, last_action, action_done,
          num_objs, actions, call, pre, ret, err>>

----------------------------------------------------------------------------
(* Bounds of the model *)

\* number of Grid.set / Grid.remove calls applied to one Grid in SpecGrid
MaxOps == 4

\* Grid.__init__ asserts width >= 3 and height >= 3
MinSize == 3

----------------------------------------------------------------------------
(* Cell contents.  A cell of Grid.grid is None, one object, or a Python    *)
(* list of objects.  isList tells a list from the other two, so that [x]   *)
(* and x, and [] and None, stay distinct as they are in the code.          *)

None == [isList |-> FALSE, objs |-> <<>>]

Single(x) == [isList |-> FALSE, objs |-> <<x>>]

List(s) == [isList |-> TRUE, objs |-> s]

\* the element a Python list gets when a list (not an object) is appended to it
NestedList == "<list>"

\* what list.append(v) appends: the object itself, or the list v as one element
Elem(v) == IF v.isList THEN NestedList ELSE v.objs[1]

\* Python truthiness of a cell value: None and [] are falsy
Truthy(v) == v # None /\ v # List(<<>>)

----------------------------------------------------------------------------
(* Grid *)

\* Grid.__init__: width * height cells, all None
NewGrid(width, height) ==
    [width |-> width, height |-> height,
     grid |-> [k \in 1..(width * height) |-> None]]

\* the asserts of set, remove and get
InBounds(g, i, j) == 0 <= i /\ i < g.width /\ 0 <= j /\ j < g.height

\* position of cell (i, j) in the flat list, 1-based
Idx(g, i, j) == j * g.width + i + 1

\* Grid.get, for in-bounds (i, j)
GridGet(g, i, j) == g.grid[Idx(g, i, j)]

\* a mutant of Grid.set: a second occupant replaces the first
GridSetOverwrite(g, i, j, v) ==
    [g EXCEPT !.grid[Idx(g, i, j)] = v]

\* Grid.set, for in-bounds (i, j)
GridSet(g, i, j, v) ==
    LET cur == g.grid[Idx(g, i, j)]
    IN  IF v = None \/ cur = None
        THEN [g EXCEPT !.grid[Idx(g, i, j)] = v]
        ELSE IF cur.isList
        THEN [g EXCEPT !.grid[Idx(g, i, j)] = List(Append(cur.objs, Elem(v)))]
        ELSE [g EXCEPT !.grid[Idx(g, i, j)] = List(<<cur.objs[1], Elem(v)>>)]

\* list.remove(x): drops the first occurrence of x
RemoveFirst(s, x) ==
    LET k == CHOOSE n \in 1..Len(s) : s[n] = x /\ \A m \in 1..(n - 1) : s[m] # x
    IN  [n \in 1..(Len(s) - 1) |-> IF n < k THEN s[n] ELSE s[n + 1]]

\* Grid.remove raises ValueError when list.remove does not find v
RemoveRaises(g, i, j, v) ==
    LET cur == g.grid[Idx(g, i, j)]
    IN  /\ cur.isList
        /\ Len(cur.objs) >= 2
        /\ \A n \in 1..Len(cur.objs) : cur.objs[n] # v

\* a mutant of Grid.remove: the last element is taken out of its list, and
\* the list stays
GridRemoveKeepsList(g, i, j, v) ==
    LET cur == g.grid[Idx(g, i, j)]
    IN  IF ~Truthy(cur) THEN g
        ELSE IF cur.isList
        THEN IF Len(cur.objs) = 1
             THEN [g EXCEPT !.grid[Idx(g, i, j)] = List(<<>>)]
             ELSE [g EXCEPT !.grid[Idx(g, i, j)] = List(RemoveFirst(cur.objs, v))]
        ELSE [g EXCEPT !.grid[Idx(g, i, j)] = None]

\* Grid.remove, for in-bounds (i, j) and when list.remove finds v
GridRemove(g, i, j, v) ==
    LET cur == g.grid[Idx(g, i, j)]
    IN  IF ~Truthy(cur) THEN g
        ELSE IF cur.isList
        THEN IF Len(cur.objs) = 1
             THEN [g EXCEPT !.grid[Idx(g, i, j)] = None]
             ELSE [g EXCEPT !.grid[Idx(g, i, j)] = List(RemoveFirst(cur.objs, v))]
        ELSE [g EXCEPT !.grid[Idx(g, i, j)] = None]

----------------------------------------------------------------------------
(* World objects, as far as the capability contract says (objects.py and   *)
(* bddl.py are not part of the source at hand).                            *)

\* bddl._ALL_ACTIONS: the interaction kinds, in their fixed order
ALL_ACTIONS == <<"pickup", "drop", "open", "close">>

\* WorldObj.possible_action: the interactions an object of a type supports
possible_action(type, action) ==
    \/ type = "key" /\ action \in {"pickup", "drop"}
    \/ type = "door" /\ action \in {"open", "close"}

\* type of an occupant: a named instance, or an anonymous Wall() / Floor()
TypeOf(os, x) == IF x \in DOMAIN os THEN os[x].type ELSE x

\* WorldObj.can_overlap: floors and goals always, a door when it is open
CanOverlap(os, x) ==
    \/ TypeOf(os, x) \in {"floor", "goal"}
    \/ TypeOf(os, x) = "door" /\ os[x].is_open

----------------------------------------------------------------------------
(* The action enumeration, MiniGridEnv.__init__ and MiniGridEnv.actions *)

\* '{}_{}'.format(obj, i)
ObjName(type, i) == type \o "_" \o ToString(i)

\* '{}/{}'.format(obj.name, action)
ActionName(name, action) == name \o "/" \o action

RECURSIVE InstancesOf(_, _)
\* __init__, inner loop: the instances type_0 .. type_(count-1) of one type
InstancesOf(type, count) ==
    IF count = 0 THEN <<>>
    ELSE Append(InstancesOf(type, count - 1),
                [name |-> ObjName(type, count - 1), type |-> type])

RECURSIVE ObjInstances(_)
\* __init__, outer loop: every instance, in insertion order of self.objs
ObjInstances(n) ==
    IF n = <<>> THEN <<>>
    ELSE InstancesOf(n[1][1], n[1][2]) \o ObjInstances(Tail(n))

\* actions[name] = i on the dict being built: a new key goes last
DictSet(acts, name, i) ==
    IF \E k \in 1..Len(acts) : acts[k].name = name
    THEN [k \in 1..Len(acts) |->
             IF acts[k].name = name THEN [name |-> name, value |-> i] ELSE acts[k]]
    ELSE Append(acts, [name |-> name, value |-> i])

\* a mutant of the counter step of actions(): i is not incremented
NextIndexStuck(i) == i

\* i += 1
NextIndex(i) == i + 1

RECURSIVE ActionLoop(_, _, _, _)
\* actions(), the two nested loops: instance number o, interaction number k,
\* the dict built so far and the counter i
ActionLoop(insts, o, k, st) ==
    IF o > Len(insts) THEN st.acts
    ELSE IF k > Len(ALL_ACTIONS) THEN ActionLoop(insts, o + 1, 1, st)
    ELSE IF possible_action(insts[o].type, ALL_ACTIONS[k])
    THEN ActionLoop(insts, o, k + 1,
             [acts |-> DictSet(st.acts, ActionName(insts[o].name, ALL_ACTIONS[k]), st.i),
              i |-> NextIndex(st.i)])
    ELSE ActionLoop(insts, o, k + 1, st)

\* actions(): the members of the IntEnum, in definition order
BuildActions(n) ==
    ActionLoop(ObjInstances(n), 1, 1,
        [acts |-> <<[name |-> "left", value |-> 0],
                    [name |-> "right", value |-> 1],
                    [name |-> "forward", value |-> 2]>>,
         i |-> 3])

\* self.actions(action): the member whose value is action, if there is one
IsAction(acts, a) == \E k \in 1..Len(acts) : acts[k].value = a

\* self.actions(action).name
ActionNameOf(acts, a) == acts[CHOOSE k \in 1..Len(acts) : acts[k].value = a].name

\* name.split('/'): the object name and the interaction the name was made of
SplitName(insts, name) ==
    CHOOSE p \in {<<insts[o].name, ALL_ACTIONS[k]>> :
                     o \in 1..Len(insts), k \in 1..Len(ALL_ACTIONS)} :
        ActionName(p[1], p[2]) = name

----------------------------------------------------------------------------
(* The scenario: what _gen_objs puts on the grid.  Scenarios are supplied  *)
(* from outside; this one has a key, a locked door on a floor tile, a     *)
(* goal, a wall and a bare floor tile, and no enclosing wall:              *)
(*        .        floor+door_0      .                                     *)
(*      key_0          .           goal_0                                  *)
(*      wall           .           floor                                   *)

\* width of the world grid
Width == 3

\* height of the world grid
Height == 3

\* max_steps of the environment
MaxSteps == 3

\* the model stops stepping an episode once step_count reaches this
StepBound == 5

ScenarioNumObjs == << <<"key", 1>>, <<"door", 1>>, <<"goal", 1>> >>

\* put_obj / grid.set calls of the scenario, in order: <<occupant, i, j>>
ScenarioLayout ==
    << <<"floor", 1, 0>>, <<"door_0", 1, 0>>, <<"key_0", 0, 1>>,
       <<"goal_0", 2, 1>>, <<"wall", 0, 2>>, <<"floor", 2, 2>> >>

\* obj.reset() and the scenario's initial object states
ScenarioObjs ==
    LET insts == ObjInstances(ScenarioNumObjs)
    IN  [x \in {insts[k].name : k \in 1..Len(insts)} |->
            LET t == (CHOOSE k \in 1..Len(insts) : insts[k].name = x)
            IN  [type |-> insts[t].type, is_open |-> FALSE,
                 is_locked |-> (insts[t].type = "door")]]

RECURSIVE PutAll(_, _)
\* put_obj: grid.set(i, j, obj) for each entry of the layout
PutAll(g, layout) ==
    IF layout = <<>> THEN g
    ELSE PutAll(GridSet(g, layout[1][2], layout[1][3], Single(layout[1][1])),
                Tail(layout))

\* _gen_grid: a new Grid, filled by _gen_objs
GenGrid == PutAll(NewGrid(Width, Height), ScenarioLayout)

\* the 'nextto' relation place_agent asks of every instance: 4-neighbourhood
NextTo(i, j, k, l) ==
    \/ i = k /\ (j = l + 1 \/ l = j + 1)
    \/ j = l /\ (i = k + 1 \/ k = i + 1)

\* place_agent: the cells it can return, empty and next to no object instance
StartCells ==
    {p \in (0..(Width - 1)) \X (0..(Height - 1)) :
        /\ GridGet(GenGrid, p[1], p[2]) = None
        /\ \A n \in 1..Len(ScenarioLayout) :
              ScenarioLayout[n][1] \in DOMAIN ScenarioObjs
                  => ~NextTo(p[1], p[2], ScenarioLayout[n][2], ScenarioLayout[n][3])}

----------------------------------------------------------------------------
(* Agent (agent.py is not part of the source at hand) *)

\* DIR_TO_VEC: 0 east, 1 south, 2 west, 3 north
DirVec(d) ==
    CASE d = 0 -> <<1, 0>>
      [] d = 1 -> <<0, 1>>
      [] d = 2 -> <<-1, 0>>
      [] d = 3 -> <<0, -1>>

\* Agent.front_pos: cur_pos + dir_vec
FrontPos(ag) ==
    <<ag.cur_pos[1] + DirVec(ag.dir)[1], ag.cur_pos[2] + DirVec(ag.dir)[2]>>

\* membership in a Python list
In(x, s) == \E n \in 1..Len(s) : s[n] = x

----------------------------------------------------------------------------
(* Interactions: agent.actions[name].can(obj) and .do(obj), as far as the  *)
(* capability contract says (the action classes are not part of the source *)
(* at hand).  w is the world: [grid, agent, objs].                         *)

\* there is a cell in front of the agent and it holds x
InFront(w, x) ==
    /\ InBounds(w.grid, FrontPos(w.agent)[1], FrontPos(w.agent)[2])
    /\ In(x, GridGet(w.grid, FrontPos(w.agent)[1], FrontPos(w.agent)[2]).objs)

\* can(obj): supported by the object, and permitted in the current state
Can(action, x, w) ==
    /\ possible_action(w.objs[x].type, action)
    /\ CASE action = "pickup" -> InFront(w, x) /\ ~In(x, w.agent.carrying)
         [] action = "drop" -> In(x, w.agent.carrying)
         [] action = "open" ->
               /\ InFront(w, x)
               /\ ~w.objs[x].is_open
               /\ \/ ~w.objs[x].is_locked
                  \/ \E n \in 1..Len(w.agent.carrying) :
                        w.objs[w.agent.carrying[n]].type = "key"
         [] action = "close" -> InFront(w, x) /\ w.objs[x].is_open

\* do(obj): the effect of the interaction
Do(action, x, w) ==
    LET f == FrontPos(w.agent)
    IN  CASE action = "pickup" ->
               [w EXCEPT !.grid = GridRemove(w.grid, f[1], f[2], x),
                         !.agent.carrying = Append(w.agent.carrying, x)]
          [] action = "drop" ->
               [w EXCEPT !.grid = GridSet(w.grid, f[1], f[2], Single(x)),
                         !.agent.carrying = RemoveFirst(w.agent.carrying, x)]
          [] action = "open" -> [w EXCEPT !.objs[x].is_open = TRUE]
          [] action = "close" -> [w EXCEPT !.objs[x].is_open = FALSE]

----------------------------------------------------------------------------
(* Hooks of the scenario *)

\* what _end_conditions may return (the one of this class returns False)
EndConditions == BOOLEAN

\* what _reward may return
Rewards == {0, 1}

----------------------------------------------------------------------------
(* gen_obs, as far as the world and the caller can tell: the view is a     *)
(* slice of the world grid whose cells are the world's own cell values, so *)
(* the view cell of the agent is the world cell the agent stands on.       *)

\* gen_obs_grid: grid.set(*agent_pos, self.agent.carrying) appends to the
\* list of the agent's cell, and that list is the world grid's
GenObsWorld(g, ag) ==
    IF ag.carrying # <<>> /\ GridGet(g, ag.cur_pos[1], ag.cur_pos[2]).isList
    THEN GridSet(g, ag.cur_pos[1], ag.cur_pos[2], List(ag.carrying))
    ELSE g

\* gen_obs: encode calls .encode() on every element of the agent's view cell,
\* and the carrying list, once an element of it, has none
GenObsRaises(g, ag) ==
    /\ ag.carrying # <<>>
    /\ In(NestedList,
          GridGet(GridSet(g, ag.cur_pos[1], ag.cur_pos[2], List(ag.carrying)),
                  ag.cur_pos[1], ag.cur_pos[2]).objs)

\* the 'direction' field of the observation gen_obs builds
ObsDirection(ag) == ag.dir

----------------------------------------------------------------------------
(* MiniGridEnv.step *)

World == [grid |-> grid, agent |-> agent, objs |-> objs]

Snap ==
    [grid |-> grid, agent |-> agent, objs |-> objs, step_count |-> step_count,
     last_action |-> last_action, action_done |-> action_done]

NoSnap == [none |-> TRUE]

NoRet == [returned |-> FALSE]

\* the integers step() is called with: every action, one below, one above
ActionInputs == (-1)..Len(actions)

\* step() is called again after a call that raised before gen_obs (the
\* environment is as well-formed as before), not after gen_obs raised: that
\* episode is over, and reset() builds a new grid
CanStep == err # "AttributeError" /\ step_count < StepBound

\* a mutant of rotate left: no wrap-around
RotateLeftNoWrap(d) == d - 1

\* self.agent.dir -= 1; if self.agent.dir < 0: self.agent.dir += 4
RotateLeft(d) == IF d - 1 < 0 THEN d - 1 + 4 ELSE d - 1

\* self.agent.dir = (self.agent.dir + 1) % 4
RotateRight(d) == (d + 1) % 4

\* forward: whether the agent may enter fwd_cell
ForwardCanOverlap(os, cell) ==
    IF cell.isList
    THEN IF \E n \in 1..Len(cell.objs) : TypeOf(os, cell.objs[n]) = "door"
         THEN TRUE
         ELSE \A n \in 1..Len(cell.objs) : CanOverlap(os, cell.objs[n])
    ELSE cell = None \/ CanOverlap(os, cell.objs[1])

\* forward: the local 'done' after the branch, None (<<>>) when never assigned
ForwardDone(os, cell) ==
    IF ~cell.isList /\ cell # None /\ TypeOf(os, cell.objs[1]) = "goal"
    THEN <<TRUE>> ELSE <<>>

\* a mutant of the interaction dispatch: a refused interaction is not recorded
InteractNoElse(w, x, action) ==
    IF Can(action, x, w)
    THEN [w |-> Do(action, x, w), action_done |-> TRUE, dos |-> 1]
    ELSE [w |-> w, action_done |-> TRUE, dos |-> 0]

\* the interaction dispatch: do(obj) if can(obj), else action_done = False
Interact(w, x, action) ==
    IF Can(action, x, w)
    THEN [w |-> Do(action, x, w), action_done |-> TRUE, dos |-> 1]
    ELSE [w |-> w, action_done |-> FALSE, dos |-> 0]

\* interaction: the local 'done' after the branch
InteractDone(sc) == IF sc >= MaxSteps THEN <<TRUE>> ELSE <<>>

\* done = self._end_conditions(): the local 'done' is overwritten
ReturnedDone(local, hook) == hook

\* the end of step(): the hooks, gen_obs, the return
Finish(a, branch, w, done, dos, local) ==
    /\ \E rw \in Rewards, dn \in EndConditions :
          ret' = IF GenObsRaises(w.grid, w.agent) THEN NoRet
                 ELSE [returned |-> TRUE, direction |-> ObsDirection(w.agent),
                       reward |-> rw, done |-> ReturnedDone(local, dn)]
    /\ err' = IF GenObsRaises(w.grid, w.agent) THEN "AttributeError" ELSE "none"
    /\ grid' = GenObsWorld(w.grid, w.agent)
    /\ agent' = w.agent
    /\ objs' = w.objs
    /\ last_action' = <<a>>
    /\ step_count' = step_count + 1
    /\ action_done' = <<done>>
    /\ call' = [op |-> "step", action |-> a, branch |-> branch, dos |-> dos]
    /\ pre' = Snap
    /\ UNCHANGED <<num_objs, actions>>

\* a mutant of the entry of step(): the counter moves before the lookup
StepInvalidCounted(a) ==
    /\ CanStep
    /\ ~IsAction(actions, a)
    /\ err' = "ValueError"
    /\ ret' = NoRet
    /\ step_count' = step_count + 1
    /\ call' = [op |-> "step", action |-> a, branch |-> "invalid", dos |-> 0]
    /\ pre' = Snap
    /\ UNCHANGED <<grid, agent, objs, last_action, action_done, num_objs, actions>>

\* step(action), action no member of the enumeration: self.actions(action) raises
StepInvalid(a) ==
    /\ CanStep
    /\ ~IsAction(actions, a)
    /\ err' = "ValueError"
    /\ ret' = NoRet
    /\ call' = [op |-> "step", action |-> a, branch |-> "invalid", dos |-> 0]
    /\ pre' = Snap
    /\ UNCHANGED <<grid, agent, objs, step_count, last_action, action_done,
                   num_objs, actions>>

\* step(action), front_pos outside the grid: the assert of Grid.get fails
StepGetFails(a) ==
    /\ CanStep
    /\ IsAction(actions, a)
    /\ ~InBounds(grid, FrontPos(agent)[1], FrontPos(agent)[2])
    /\ last_action' = <<a>>
    /\ step_count' = step_count + 1
    /\ action_done' = <<TRUE>>
    /\ err' = "AssertionError"
    /\ ret' = NoRet
    /\ call' = [op |-> "step", action |-> a, branch |-> "get", dos |-> 0]
    /\ pre' = Snap
    /\ UNCHANGED <<grid, agent, objs, num_objs, actions>>

\* the part of step() every branch below goes through first
StepEnters(a) ==
    /\ CanStep
    /\ IsAction(actions, a)
    /\ InBounds(grid, FrontPos(agent)[1], FrontPos(agent)[2])

\* step(self.actions.left)
StepLeft(a) ==
    /\ StepEnters(a)
    /\ a = 0
    /\ Finish(a, "left", [World EXCEPT !.agent.dir = RotateLeft(agent.dir)],
              TRUE, 0, <<>>)

\* step(self.actions.right)
StepRight(a) ==
    /\ StepEnters(a)
    /\ a = 1
    /\ Finish(a, "right", [World EXCEPT !.agent.dir = RotateRight(agent.dir)],
              TRUE, 0, <<>>)

\* a mutant of the forward step: the cell in front is read without the
\* asserts of Grid.get, and is None outside the grid
StepForwardNoAssert(a) ==
    LET fwd_pos == FrontPos(agent)
        fwd_cell == IF InBounds(grid, fwd_pos[1], fwd_pos[2])
                    THEN GridGet(grid, fwd_pos[1], fwd_pos[2]) ELSE None
    IN  /\ CanStep
        /\ IsAction(actions, a)
        /\ a = 2
        /\ IF ForwardCanOverlap(objs, fwd_cell)
           THEN Finish(a, "forward", [World EXCEPT !.agent.cur_pos = fwd_pos],
                       TRUE, 0, ForwardDone(objs, fwd_cell))
           ELSE Finish(a, "forward", World, FALSE, 0, ForwardDone(objs, fwd_cell))

\* step(self.actions.forward)
StepForward(a) ==
    LET fwd_pos == FrontPos(agent)
        fwd_cell == GridGet(grid, fwd_pos[1], fwd_pos[2])
    IN  /\ StepEnters(a)
        /\ a = 2
        /\ IF ForwardCanOverlap(objs, fwd_cell)
           THEN Finish(a, "forward", [World EXCEPT !.agent.cur_pos = fwd_pos],
                       TRUE, 0, ForwardDone(objs, fwd_cell))
           ELSE Finish(a, "forward", World, FALSE, 0, ForwardDone(objs, fwd_cell))

\* step(action), action an object interaction
StepInteract(a) ==
    LET obj_action == SplitName(ObjInstances(num_objs), ActionNameOf(actions, a))
        r == Interact(World, obj_action[1], obj_action[2])
    IN  /\ StepEnters(a)
        /\ a \notin {0, 1, 2}
        /\ Finish(a, "interact", r.w, r.action_done, r.dos,
                  InteractDone(step_count + 1))

\* reset(): agent.reset(), obj.reset(), _gen_grid with place_agent, gen_obs
Reset ==
    /\ \E p \in StartCells, d \in 0..3 :
          /\ agent' = [cur_pos |-> p, dir |-> d, carrying |-> <<>>]
          /\ ret' = [returned |-> TRUE, direction |-> d]
    /\ objs' = ScenarioObjs
    /\ grid' = GenGrid
    /\ step_count' = 0
    /\ err' = "none"
    /\ call' = [op |-> "reset", action |-> 0, branch |-> "reset", dos |-> 0]
    /\ pre' = NoSnap
    /\ UNCHANGED <<last_action, action_done, num_objs, actions>>

\* the environment once __init__ has run: the enumeration built, reset() done
Init ==
    /\ num_objs = ScenarioNumObjs
    /\ actions = BuildActions(ScenarioNumObjs)
    /\ last_action = <<>>
    /\ action_done = <<>>
    /\ \E p \in StartCells, d \in 0..3 :
          /\ agent = [cur_pos |-> p, dir |-> d, carrying |-> <<>>]
          /\ ret = [returned |-> TRUE, direction |-> d]
    /\ objs = ScenarioObjs
    /\ grid = GenGrid
    /\ step_count = 0
    /\ err = "none"
    /\ call = [op |-> "reset", action |-> 0, branch |-> "reset", dos |-> 0]
    /\ pre = NoSnap

Next ==
    \/ \E a \in ActionInputs : StepInvalid(a)
    \/ \E a \in ActionInputs : StepGetFails(a)
    \/ \E a \in ActionInputs : StepLeft(a)
    \/ \E a \in ActionInputs : StepRight(a)
    \/ \E a \in ActionInputs : StepForward(a)
    \/ \E a \in ActionInputs : StepInteract(a)
    \/ Reset

Spec == Init /\ [][Next]_vars

----------------------------------------------------------------------------
(* The action enumeration on its own: the constructor's num_objs drawn     *)
(* from a bounded set, actions() applied to it.                            *)

\* number of object types in num_objs
MaxTypes == 2

\* instances per object type
MaxCount == 2

\* keys of _OBJECT_CLASS the inputs are drawn from
ObjTypes == {"key", "door", "goal", "ball"}

NumObjsInputs ==
    {n \in UNION {[1..m -> ObjTypes \X (0..MaxCount)] : m \in 0..MaxTypes} :
        \A k, l \in 1..Len(n) : k # l => n[k][1] # n[l][1]}

IdleAgent == [cur_pos |-> <<>>, dir |-> 0, carrying |-> <<>>]

\* __init__ up to the call of self.actions()
InitActions ==
    /\ num_objs \in NumObjsInputs
    /\ actions = <<>>
    /\ last_action = <<>>
    /\ action_done = <<>>
    /\ grid = NewGrid(MinSize, MinSize)
    /\ agent = IdleAgent
    /\ objs = <<>>
    /\ step_count = 0
    /\ call = [op |-> "init"]
    /\ pre = NoSnap
    /\ ret = NoRet
    /\ err = "none"

\* self.actions()
CallActions ==
    /\ call.op = "init"
    /\ actions' = BuildActions(num_objs)
    /\ call' = [op |-> "actions"]
    /\ UNCHANGED <<grid, agent, objs, step_count, last_action, action_done,
                   num_objs, pre, ret, err>>

NextActions == CallActions

SpecActions == InitActions /\ [][NextActions]_vars

----------------------------------------------------------------------------
(* The Grid on its own: a new Grid, then set and remove calls on it *)

\* the objects handed to set and remove
GridObjs == {"key_0", "door_0"}

\* the coordinates set and remove are called with: two cells of the grid and
\* one place outside each of its four sides
GridCoords ==
    {<<0, 0>>, <<MinSize - 1, 1>>,
     <<-1, 0>>, <<MinSize, 0>>, <<1, -1>>, <<0, MinSize>>}

InitGrid ==
    /\ grid = NewGrid(MinSize, MinSize)
    /\ call = [op |-> "new", n |-> 0]
    /\ pre = NoSnap
    /\ err = "none"
    /\ ret = NoRet
    /\ num_objs = <<>>
    /\ actions = <<>>
    /\ last_action = <<>>
    /\ action_done = <<>>
    /\ agent = IdleAgent
    /\ objs = <<>>
    /\ step_count = 0

\* grid.set(i, j, v)
CallSet(i, j, v) ==
    /\ call.n < MaxOps
    /\ call' = [op |-> "set", i |-> i, j |-> j, v |-> v, n |-> call.n + 1]
    /\ pre' = [grid |-> grid]
    /\ IF InBounds(grid, i, j)
       THEN grid' = GridSet(grid, i, j, v) /\ err' = "none"
       ELSE grid' = grid /\ err' = "AssertionError"
    /\ UNCHANGED <<agent, objs, step_count, last_action, action_done,
                   num_objs, actions, ret>>

\* grid.remove(i, j, v)
CallRemove(i, j, v) ==
    /\ call.n < MaxOps
    /\ call' = [op |-> "remove", i |-> i, j |-> j, v |-> v, n |-> call.n + 1]
    /\ pre' = [grid |-> grid]
    /\ IF ~InBounds(grid, i, j)
       THEN grid' = grid /\ err' = "AssertionError"
       ELSE IF RemoveRaises(grid, i, j, v.objs[1])
       THEN grid' = grid /\ err' = "ValueError"
       ELSE grid' = GridRemove(grid, i, j, v.objs[1]) /\ err' = "none"
    /\ UNCHANGED <<agent, objs, step_count, last_action, action_done,
                   num_objs, actions, ret>>

NextGrid ==
    \/ \E p \in GridCoords, v \in {None} \cup {Single(x) : x \in GridObjs} :
          CallSet(p[1], p[2], v)
    \/ \E p \in GridCoords, x \in GridObjs : CallRemove(p[1], p[2], Single(x))

SpecGrid == InitGrid /\ [][NextGrid]_vars

----------------------------------------------------------------------------
(* Properties of step(), checked under Spec *)

\* the world the last call started from
PreWorld == [grid |-> pre.grid, agent |-> pre.agent, objs |-> pre.objs]

\* the cell that was in front of the agent when the last call started
PreFrontInBounds ==
    InBounds(pre.grid, FrontPos(pre.agent)[1], FrontPos(pre.agent)[2])

PreFrontCell == GridGet(pre.grid, FrontPos(pre.agent)[1], FrontPos(pre.agent)[2])

\* every occupant of a cell has can_overlap (true of an empty cell)
AllOverlap(os, cell) == \A n \in 1..Len(cell.objs) : CanOverlap(os, cell.objs[n])

\* the last call was step() with a member of the enumeration
ValidStep == call.op = "step" /\ IsAction(actions, call.action)

\* the object and the interaction the last call's action resolves to
Resolved == SplitName(ObjInstances(num_objs), ActionNameOf(actions, call.action))

\* the last call was a forward step that moved the agent onto a goal
MovedOntoGoal ==
    /\ ValidStep
    /\ call.action = 2
    /\ PreFrontInBounds
    /\ agent.cur_pos = FrontPos(pre.agent)
    /\ \E n \in 1..Len(PreFrontCell.objs) :
          TypeOf(pre.objs, PreFrontCell.objs[n]) = "goal"

\* C1: a forward step that moves the agent into a cell holding the goal,
\* alone or in a collection, returns done = true whatever _end_conditions
\* returns.
C1_GoalStepDone == MovedOntoGoal /\ err = "none" => ret.done = TRUE

\* C2: step_count is 0 after reset(), grows by exactly 1 per step() call, and
\* every step() after which step_count >= max_steps returns done = true,
\* whatever the action and its outcome.
C2_MaxStepsDone ==
    /\ call.op = "reset" => step_count = 0
    /\ ValidStep => step_count = pre.step_count + 1
    /\ ValidStep /\ err = "none" /\ step_count >= MaxSteps => ret.done = TRUE

\* C3: on a forward step the agent moves to the cell ahead if and only if
\* that cell is empty or all its occupants have can_overlap; otherwise it
\* stays where it was and action_done is false.
C3_ForwardIffOverlap ==
    ValidStep /\ call.action = 2 /\ PreFrontInBounds =>
        IF AllOverlap(pre.objs, PreFrontCell)
        THEN agent.cur_pos = FrontPos(pre.agent)
        ELSE agent.cur_pos = pre.agent.cur_pos /\ action_done = <<FALSE>>

BlockedStep ==
    /\ ValidStep
    /\ \/ /\ call.action = 2
          /\ PreFrontInBounds
          /\ ~AllOverlap(pre.objs, PreFrontCell)
       \/ /\ call.action \notin {0, 1, 2}
          /\ ~Can(Resolved[2], Resolved[1], PreWorld)

\* C5: a blocked step raises no error, reports the action as not completed
\* and changes neither the grid, nor the agent's position, direction and
\* carried objects, nor any object's state.
C5_BlockedStepNoMutation ==
    BlockedStep =>
        /\ err = "none"
        /\ action_done = <<FALSE>>
        /\ grid = pre.grid
        /\ agent = pre.agent
        /\ objs = pre.objs

\* C6: a rotate-left or rotate-right step raises no error, sets action_done,
\* turns the agent by -1 resp. +1 modulo 4 and leaves its position and the
\* grid unchanged, wherever the agent stands and faces.
C6_RotateAlwaysSucceeds ==
    ValidStep /\ call.action \in {0, 1} =>
        /\ err = "none"
        /\ action_done = <<TRUE>>
        /\ agent.dir = (pre.agent.dir + (IF call.action = 0 THEN 3 ELSE 1)) % 4
        /\ agent.cur_pos = pre.agent.cur_pos
        /\ grid = pre.grid

\* C7: step() with an integer that is no action fails, and step_count,
\* last_action, the agent's position and direction and the grid are as before.
C7_InvalidActionRejected ==
    call.op = "step" /\ ~IsAction(actions, call.action) =>
        /\ err = "ValueError"
        /\ step_count = pre.step_count
        /\ last_action = pre.last_action
        /\ agent = pre.agent
        /\ grid = pre.grid

\* an integer past the enumeration was rejected in the middle of an episode
C7_Witness ==
    /\ call.op = "step"
    /\ call.action = Len(actions)
    /\ err = "ValueError"
    /\ step_count > 0
    /\ last_action # <<>>

\* C9: agent.dir is in {0,1,2,3} after reset() and after every step(), and
\* the direction of every observation returned is the agent's direction
\* after the action.
C9_DirInRange ==
    /\ agent.dir \in 0..3
    /\ ret.returned => ret.direction = agent.dir /\ ret.direction \in 0..3

\* a rotate-left step from direction 0 returned an observation
C9_Witness ==
    /\ call.op = "step"
    /\ call.branch = "left"
    /\ pre.agent.dir = 0
    /\ agent.dir = 3
    /\ ret.returned

----------------------------------------------------------------------------
(* Properties of the action enumeration, checked under SpecActions *)

\* the (instance, interaction) pairs that get an action, by their numbers
Supported(insts) ==
    {p \in (1..Len(insts)) \X (1..Len(ALL_ACTIONS)) :
        possible_action(insts[p[1]].type, ALL_ACTIONS[p[2]])}

\* pair p comes before pair q: earlier instance, or same instance and
\* earlier interaction
Before(p, q) == p[1] < q[1] \/ (p[1] = q[1] /\ p[2] < q[2])

\* C8: left, right, forward are 0, 1, 2; then one action per supported
\* (instance, interaction) pair, numbered 3, 4, ... by instance in insertion
\* order and interaction in _ALL_ACTIONS order; 3 plus the number of such
\* pairs in all, and no integer used twice.
C8_ActionEnumeration ==
    call.op = "actions" =>
        LET insts == ObjInstances(num_objs)
        IN  /\ Len(actions) = 3 + Cardinality(Supported(insts))
            /\ actions[1] = [name |-> "left", value |-> 0]
            /\ actions[2] = [name |-> "right", value |-> 1]
            /\ actions[3] = [name |-> "forward", value |-> 2]
            /\ \A k, l \in 1..Len(actions) :
                  k # l => actions[k].value # actions[l].value
            /\ \A p \in Supported(insts) :
                  LET v == 3 + Cardinality({q \in Supported(insts) : Before(q, p)})
                  IN  \E k \in 1..Len(actions) :
                         /\ actions[k].value = v
                         /\ actions[k].name =
                               ActionName(insts[p[1]].name, ALL_ACTIONS[p[2]])

\* an enumeration over two types with interactions, two instances of one
C8_Witness ==
    /\ call.op = "actions"
    /\ num_objs = << <<"door", 2>>, <<"key", 1>> >>
    /\ Len(actions) = 9

----------------------------------------------------------------------------
(* Properties of Grid.set, checked under SpecGrid *)

\* C10: set(i,j,obj) in bounds makes the cell exactly obj when the cell is
\* empty or obj is null, [x, obj] when the cell holds one occupant x, and
\* appends obj when it holds a collection; no other cell changes.  Out of
\* bounds the assertion fails and no cell changes.
C10_SetCell ==
    call.op = "set" =>
        IF InBounds(pre.grid, call.i, call.j)
        THEN LET k == Idx(pre.grid, call.i, call.j)
                 cur == pre.grid.grid[k]
                 new == grid.grid[k]
             IN  /\ err = "none"
                 /\ grid.width = pre.grid.width /\ grid.height = pre.grid.height
                 /\ DOMAIN grid.grid = DOMAIN pre.grid.grid
                 /\ \A m \in DOMAIN grid.grid :
                       m # k => grid.grid[m] = pre.grid.grid[m]
                 /\ cur = None \/ call.v = None => new = call.v
                 /\ cur # None /\ call.v # None /\ ~cur.isList =>
                       new = List(<<cur.objs[1], call.v.objs[1]>>)
                 /\ cur # None /\ call.v # None /\ cur.isList =>
                       new = List(cur.objs \o <<call.v.objs[1]>>)
        ELSE err = "AssertionError" /\ grid = pre.grid

\* an object was appended to a cell that held a collection of two
C10_Witness ==
    /\ call.op = "set"
    /\ err = "none"
    /\ call.v # None
    /\ grid.grid[Idx(grid, call.i, call.j)].isList
    /\ Len(grid.grid[Idx(grid, call.i, call.j)].objs) = 3

----------------------------------------------------------------------------
(* Properties of Grid.remove, checked under SpecGrid *)

\* how many times x occurs in a cell
Occurrences(cell, x) == Cardinality({n \in 1..Len(cell.objs) : cell.objs[n] = x})

\* the occupants found in the cells of a set of cell values
OccupantsOf(cells) == UNION {{c.objs[n] : n \in 1..Len(c.objs)} : c \in cells}

\* C11: remove(i,j,obj) removes obj and nothing else: every other occupant of
\* the cell is still there afterwards (a cell whose only occupant is another
\* object keeps it), and the cell becomes empty exactly when obj was its
\* only occupant.
C11_RemoveOnlyObj ==
    call.op = "remove" /\ InBounds(pre.grid, call.i, call.j) =>
        LET k == Idx(pre.grid, call.i, call.j)
            cur == pre.grid.grid[k]
            new == grid.grid[k]
            obj == call.v.objs[1]
        IN  /\ \A x \in OccupantsOf({cur}) \ {obj} :
                  Occurrences(new, x) = Occurrences(cur, x)
            /\ cur # None => (new = None <=> OccupantsOf({cur}) = {obj})

----------------------------------------------------------------------------
(* WorldObj as Grid's transforms use it (objects.py and globals.py are not  *)
(* part of the source at hand): can_seebehind, and encode() with the index  *)
(* tables OBJECT_TO_IDX and COLOR_TO_IDX.  'last' is an object type         *)
(* registered at the top index a uint8 channel can hold.                    *)

OBJECT_TO_IDX ==
    [unseen |-> 0, empty |-> 1, wall |-> 2, floor |-> 3, door |-> 4,
     key |-> 5, ball |-> 6, box |-> 7, goal |-> 8, last |-> 255]

\* COLOR_TO_IDX[_OBJECT_COLOR[type]]: the colour every instance of a type has
ColorIdx ==
    [wall |-> 5, floor |-> 2, door |-> 4, key |-> 4, ball |-> 2, box |-> 3,
     goal |-> 1, last |-> 5]

\* the states of the named instances when a Grid is used on its own
DefaultObjs ==
    LET type == [key_0 |-> "key", key_1 |-> "key", ball_0 |-> "ball",
                 door_0 |-> "door", last_0 |-> "last", last_1 |-> "last"]
    IN  [x \in DOMAIN type |->
            [type |-> type[x], is_open |-> FALSE, is_locked |-> (x = "door_0")]]

\* WorldObj.can_seebehind: false for a wall and for a door that is not open
CanSeeBehind(os, x) ==
    ~ \/ TypeOf(os, x) = "wall"
      \/ TypeOf(os, x) = "door" /\ ~os[x].is_open

\* the state byte of encode(): 0 open, 1 closed, 2 locked for a door, else 0
StateOf(os, x) ==
    IF TypeOf(os, x) # "door" THEN 0
    ELSE IF os[x].is_open THEN 0
    ELSE IF os[x].is_locked THEN 2
    ELSE 1

\* WorldObj.encode(): (type_idx, color_idx, state)
ObjEncode(os, x) ==
    <<OBJECT_TO_IDX[TypeOf(os, x)], ColorIdx[TypeOf(os, x)], StateOf(os, x)>>

\* WorldObj.decode(type_idx, color_idx, state): None for empty and unseen,
\* else a new object of that type, colour and state; a triple no object
\* encodes to has no entry in the inverse index tables
Decodable == {<<"wall", 5, 0>>, <<"floor", 2, 0>>, <<"key", 4, 0>>,
              <<"ball", 2, 0>>, <<"door", 4, 2>>, <<"last", 5, 0>>}

DecodeRaises(t) ==
    /\ t[1] \notin {OBJECT_TO_IDX.unseen, OBJECT_TO_IDX.empty}
    /\ ~ \E d \in Decodable : <<OBJECT_TO_IDX[d[1]], d[2], d[3]>> = t

\* decoded objects are named as the instance of the same type and state
WorldObjDecode(t) ==
    IF t[1] \in {OBJECT_TO_IDX.unseen, OBJECT_TO_IDX.empty} THEN None
    ELSE LET d == CHOOSE d \in Decodable : <<OBJECT_TO_IDX[d[1]], d[2], d[3]>> = t
         IN  IF d[1] \in {"wall", "floor"} THEN Single(d[1])
             ELSE Single(ObjName(d[1], 0))

----------------------------------------------------------------------------
(* Grid.slice, Grid.rotate_left, Grid.encode, Grid.decode *)

\* Wall(): a new wall
Wall == Single("wall")

\* the (i, j) of a grid or of an array of the same shape
Coords(g) == (0..(g.width - 1)) \X (0..(g.height - 1))

\* slice, loop body without the bounds test: the index wraps around
SliceCellWrapped(g, x, y) == GridGet(g, x % g.width, y % g.height)

\* slice, loop body: the source cell when (x, y) is inside the source, else
\* a new wall
SliceCell(g, x, y) == IF InBounds(g, x, y) THEN GridGet(g, x, y) ELSE Wall

RECURSIVE SliceLoop(_, _, _, _, _)
\* slice, 'for j in range(height): for i in range(width)', from the k-th
\* iteration on; out is the grid being filled
SliceLoop(g, out, topX, topY, k) ==
    IF k = out.width * out.height THEN out
    ELSE LET i == k % out.width
             j == k \div out.width
         IN  SliceLoop(g, GridSet(out, i, j, SliceCell(g, topX + i, topY + j)),
                       topX, topY, k + 1)

\* Grid.slice(topX, topY, width, height)
GridSlice(g, topX, topY, width, height) ==
    SliceLoop(g, NewGrid(width, height), topX, topY, 0)

\* slice: the source coordinates self.get is called with
SliceReads(g, topX, topY, width, height) ==
    {p \in {<<topX + i, topY + j>> : i \in 0..(width - 1), j \in 0..(height - 1)} :
        InBounds(g, p[1], p[2])}

\* where the content of source cell (i, j) goes in a turn to the right
RotateTargetRight(g, out, i, j) == <<out.width - 1 - j, i>>

\* rotate_left, loop body: where the content of source cell (i, j) goes
RotateTarget(g, out, i, j) == <<j, out.height - 1 - i>>

RECURSIVE RotateLoop(_, _, _)
\* rotate_left, 'for i in range(self.width): for j in range(self.height)'
RotateLoop(g, out, k) ==
    IF k = g.width * g.height THEN out
    ELSE LET i == k \div g.height
             j == k % g.height
             t == RotateTarget(g, out, i, j)
         IN  RotateLoop(g, GridSet(out, t[1], t[2], GridGet(g, i, j)), k + 1)

\* Grid.rotate_left()
GridRotateLeft(g) == RotateLoop(g, NewGrid(g.height, g.width), 0)

\* a uint8 array element holds its value modulo 2^8
U8(n) == n % 256

\* np.add of two triples, stored into the uint8 array
AddU8(a, b) == <<U8(a[1] + b[1]), U8(a[2] + b[2]), U8(a[3] + b[3])>>

\* np.zeros: one cell of the array encode starts from
Zeros == <<0, 0, 0>>

RECURSIVE EncodeList(_, _, _)
\* encode, 'for obj in v': each occupant's triple added to the cell's
EncodeList(os, acc, occupants) ==
    IF occupants = <<>> THEN acc
    ELSE EncodeList(os, AddU8(acc, ObjEncode(os, occupants[1])), Tail(occupants))

\* encode, a visible list cell as the last occupant's triple alone
EncodeCellLast(os, cell) ==
    IF cell = None THEN <<OBJECT_TO_IDX.empty, 0, 0>>
    ELSE ObjEncode(os, cell.objs[Len(cell.objs)])

\* encode, loop body for a visible cell
EncodeCell(os, cell) ==
    IF cell = None THEN <<OBJECT_TO_IDX.empty, 0, 0>>
    ELSE IF cell.isList THEN EncodeList(os, Zeros, cell.objs)
    ELSE ObjEncode(os, cell.objs[1])

\* vis_mask = np.ones(...): the mask encode uses when it is given none
AllVisible(g) == [p \in Coords(g) |-> TRUE]

\* encode calls .encode() on every occupant of a visible cell; a list held
\* as an occupant has none
EncodeRaises(g, vis_mask) ==
    \E p \in Coords(g) : vis_mask[p] /\ In(NestedList, GridGet(g, p[1], p[2]).objs)

\* Grid.encode(vis_mask)
GridEncode(os, g, vis_mask) ==
    [width |-> g.width, height |-> g.height,
     a |-> [p \in Coords(g) |->
              IF vis_mask[p] THEN EncodeCell(os, GridGet(g, p[1], p[2]))
              ELSE Zeros]]

\* decode: WorldObj.decode raises on a triple of no object
GridDecodeRaises(array) == \E p \in DOMAIN array.a : DecodeRaises(array.a[p])

\* decode, loop body reading the array at [j, i]
DecodeAtTransposed(array, i, j) == WorldObjDecode(array.a[<<j, i>>])

\* decode, loop body: the object of the triple at array[i, j]
DecodeAt(array, i, j) == WorldObjDecode(array.a[<<i, j>>])

RECURSIVE DecodeLoop(_, _, _)
\* decode, 'for i in range(width): for j in range(height)'
DecodeLoop(array, out, k) ==
    IF k = array.width * array.height THEN out
    ELSE LET i == k \div array.height
             j == k % array.height
         IN  DecodeLoop(array, GridSet(out, i, j, DecodeAt(array, i, j)), k + 1)

\* Grid.decode(array): the grid and the visibility mask
GridDecode(array) ==
    [grid |-> DecodeLoop(array, NewGrid(array.width, array.height), 0),
     vis_mask |-> [p \in DOMAIN array.a |->
                      array.a[p][1] # OBJECT_TO_IDX.unseen]]

----------------------------------------------------------------------------
(* A Grid with content under slice and rotate_left *)

\* the most cells of a source grid that are not empty
MaxFill == 2

\* the most rotate_left calls made in a row
MaxTurns == 4

\* the grid whose cells in DOMAIN f hold f and whose other cells are empty
MakeGrid(width, height, f) ==
    [width |-> width, height |-> height,
     grid |-> [k \in 1..(width * height) |-> IF k \in DOMAIN f THEN f[k] ELSE None]]

\* no named instance is on the grid twice
NamedOnce(g) ==
    \A x \in DOMAIN DefaultObjs :
        Cardinality({<<k, n>> \in (DOMAIN g.grid) \X (1..2) :
                        n <= Len(g.grid[k].objs) /\ g.grid[k].objs[n] = x}) <= 1

\* the grids of a size with at most MaxFill cells filled from a set of
\* cell contents
FilledGrids(width, height, cells) ==
    {g \in {MakeGrid(width, height, f) :
              f \in UNION {[S -> cells] :
                             S \in {S \in SUBSET (1..(width * height)) :
                                       Cardinality(S) <= MaxFill}}} :
        NamedOnce(g)}

\* what the cells of the source grids hold
ViewCells == {Wall, Single("key_0"), List(<<"floor", "ball_0">>)}

\* the sizes of the source grids
ViewDims == {<<MinSize, MinSize>>, <<MinSize, MinSize + 1>>}

\* the windows slice is called with: (topX, topY, width, height)
SliceArgs == ((-1)..1) \X ((-1)..1) \X {MinSize, MinSize + 1} \X {MinSize}

\* the environment's fields are not in use when a Grid is used on its own
NoEnv ==
    /\ num_objs = <<>>
    /\ actions = <<>>
    /\ last_action = <<>>
    /\ action_done = <<>>
    /\ objs = <<>>
    /\ step_count = 0

InitView ==
    /\ \E d \in ViewDims : grid \in FilledGrids(d[1], d[2], ViewCells)
    /\ call = [op |-> "new", n |-> 0]
    /\ pre = NoSnap
    /\ err = "none"
    /\ ret = NoRet
    /\ agent = IdleAgent
    /\ NoEnv

\* grid.slice(topX, topY, width, height); slice writes to the new grid only
CallSlice(topX, topY, width, height) ==
    /\ call.op = "new"
    /\ call' = [op |-> "slice", topX |-> topX, topY |-> topY,
                width |-> width, height |-> height, n |-> 1]
    /\ pre' = [grid |-> grid]
    /\ ret' = [grid |-> GridSlice(grid, topX, topY, width, height),
               reads |-> SliceReads(grid, topX, topY, width, height)]
    /\ err' = "none"
    /\ UNCHANGED <<grid, agent, objs, step_count, last_action, action_done,
                   num_objs, actions>>

\* grid = grid.rotate_left(); pre keeps the first grid and the one turned last
CallRotate ==
    /\ call.op \in {"new", "rotate_left"}
    /\ call.n < MaxTurns
    /\ call' = [op |-> "rotate_left", n |-> call.n + 1]
    /\ pre' = [grid |-> IF call.op = "new" THEN grid ELSE pre.grid, last |-> grid]
    /\ grid' = GridRotateLeft(grid)
    /\ err' = "none"
    /\ UNCHANGED <<agent, objs, step_count, last_action, action_done,
                   num_objs, actions, ret>>

NextView ==
    \/ \E a \in SliceArgs : CallSlice(a[1], a[2], a[3], a[4])
    \/ CallRotate

SpecView == InitView /\ [][NextView]_vars

\* the encoding Grid.__eq__ compares
Encoding(g) == GridEncode(DefaultObjs, g, AllVisible(g))

\* C12: slice returns a new width-by-height grid whose cell (i,j) has the
\* content of source cell (topX+i, topY+j) when that is inside the source and
\* one new wall when it is outside; the source is not read outside its
\* bounds and is unchanged.
C12_Slice ==
    call.op = "slice" =>
        /\ err = "none"
        /\ ret.grid.width = call.width /\ ret.grid.height = call.height
        /\ \A p \in Coords(ret.grid) :
              LET x == call.topX + p[1]
                  y == call.topY + p[2]
              IN  GridGet(ret.grid, p[1], p[2]) =
                      IF 0 <= x /\ x < pre.grid.width /\ 0 <= y /\ y < pre.grid.height
                      THEN pre.grid.grid[y * pre.grid.width + x + 1]
                      ELSE [isList |-> FALSE, objs |-> <<"wall">>]
        /\ \A p \in ret.reads : InBounds(pre.grid, p[1], p[2])
        /\ grid = pre.grid

\* a window that reaches outside the source and over a list cell of it
C12_Witness ==
    /\ call.op = "slice"
    /\ \E p \in Coords(ret.grid) :
          ~InBounds(grid, call.topX + p[1], call.topY + p[2])
    /\ \E p \in Coords(ret.grid) :
          /\ InBounds(grid, call.topX + p[1], call.topY + p[2])
          /\ GridGet(ret.grid, p[1], p[2]).isList

\* C13: rotate_left returns a grid of width = source height and height =
\* source width with the content of source cell (i,j) at (j, newHeight-1-i);
\* four rotate_left calls in a row give a grid whose encoding equals the
\* first grid's.
C13_RotateLeft ==
    call.op = "rotate_left" =>
        /\ grid.width = pre.last.height /\ grid.height = pre.last.width
        /\ \A p \in Coords(pre.last) :
              GridGet(grid, p[2], grid.height - 1 - p[1]) =
                  GridGet(pre.last, p[1], p[2])
        /\ call.n = 4 => Encoding(grid) = Encoding(pre.grid)

\* the fourth turn of a grid that is not square and holds a list cell
C13_Witness ==
    /\ call.op = "rotate_left" /\ call.n = 4
    /\ grid.width # grid.height
    /\ \E k \in DOMAIN grid.grid : grid.grid[k].isList
    /\ \E k \in DOMAIN grid.grid : grid.grid[k] = None

----------------------------------------------------------------------------
(* A Grid with content under encode, and decode of what encode returned *)

\* what the cells of the grids encoded hold
EncodeCells ==
    {Wall, Single("key_0"), Single("door_0"), List(<<"floor", "ball_0">>),
     List(<<"last_0", "last_1">>)}

\* the masks encode is given: everything visible, nothing visible, and one
\* cell hidden
Masks(g) ==
    {[p \in Coords(g) |-> b] : b \in BOOLEAN}
        \cup {[p \in Coords(g) |-> p # q] : q \in Coords(g)}

InitEncode ==
    /\ grid \in FilledGrids(MinSize, MinSize, EncodeCells)
    /\ call = [op |-> "new", n |-> 0]
    /\ pre = NoSnap
    /\ err = "none"
    /\ ret = NoRet
    /\ agent = IdleAgent
    /\ NoEnv

\* array = grid.encode(vis_mask)
CallEncode(vis_mask) ==
    /\ call.op = "new"
    /\ call' = [op |-> "encode", vis_mask |-> vis_mask, n |-> 1]
    /\ pre' = [grid |-> grid]
    /\ IF EncodeRaises(grid, vis_mask)
       THEN ret' = NoRet /\ err' = "AttributeError"
       ELSE ret' = [array |-> GridEncode(DefaultObjs, grid, vis_mask)] /\ err' = "none"
    /\ UNCHANGED <<grid, agent, objs, step_count, last_action, action_done,
                   num_objs, actions>>

\* Grid.decode(array) of the array the encode call returned
CallDecode ==
    /\ call.op = "encode" /\ err = "none"
    /\ call' = [call EXCEPT !.op = "decode", !.n = 2]
    /\ IF GridDecodeRaises(ret.array)
       THEN ret' = ret /\ err' = "KeyError"
       ELSE /\ ret' = [array |-> ret.array,
                       grid |-> GridDecode(ret.array).grid,
                       vis_mask |-> GridDecode(ret.array).vis_mask]
            /\ err' = "none"
    /\ UNCHANGED <<grid, agent, objs, step_count, last_action, action_done,
                   num_objs, actions, pre>>

NextEncode ==
    \/ \E m \in Masks(grid) : CallEncode(m)
    \/ CallDecode

SpecEncode == InitEncode /\ [][NextEncode]_vars

RECURSIVE ChannelSum(_, _)
\* the sum of channel c over the triples of a cell's occupants
ChannelSum(occupants, c) ==
    IF occupants = <<>> THEN 0
    ELSE ObjEncode(DefaultObjs, occupants[1])[c] + ChannelSum(Tail(occupants), c)

\* C14: encode(visMask) gives for every cell the unseen marker when the mask
\* is false there, (EMPTY_IDX,0,0) when visible and empty, the occupant's
\* triple when visible with one occupant, and the channel-wise sum of the
\* occupants' triples modulo 256 when visible with several; the grid is not
\* modified.
C14_Encode ==
    call.op = "encode" =>
        /\ err = "none"
        /\ grid = pre.grid
        /\ \A p \in Coords(grid) :
              LET cell == grid.grid[p[2] * grid.width + p[1] + 1]
              IN  ret.array.a[p] =
                      IF ~call.vis_mask[p] THEN <<OBJECT_TO_IDX.unseen, 0, 0>>
                      ELSE IF Len(cell.objs) = 0 THEN <<OBJECT_TO_IDX.empty, 0, 0>>
                      ELSE IF Len(cell.objs) = 1 THEN ObjEncode(DefaultObjs, cell.objs[1])
                      ELSE <<ChannelSum(cell.objs, 1) % 256,
                             ChannelSum(cell.objs, 2) % 256,
                             ChannelSum(cell.objs, 3) % 256>>

\* an encoding with a hidden occupied cell, a visible single occupant and a
\* visible list whose type indices add up to more than a byte holds
C14_Witness ==
    /\ call.op = "encode"
    /\ \E k \in DOMAIN grid.grid : grid.grid[k].isList /\ ChannelSum(grid.grid[k].objs, 1) > 255
    /\ \E p \in Coords(grid) : call.vis_mask[p] /\ GridGet(grid, p[1], p[2]).isList
    /\ \E p \in Coords(grid) : ~call.vis_mask[p] /\ GridGet(grid, p[1], p[2]) = Single("key_0")

\* every cell is empty or holds one occupant
AllSingle(g) == \A k \in DOMAIN g.grid : ~g.grid[k].isList

\* C15: for a grid whose cells are empty or hold one occupant,
\* decode(encode(grid, all-true mask)) returns a grid whose encoding equals
\* the grid's, and a mask that is true for exactly the cells whose encoded
\* type is not the unseen marker.
C15_DecodeEncode ==
    call.op = "decode" =>
        /\ AllSingle(pre.grid) =>
              /\ err = "none"
              /\ \A p \in Coords(grid) :
                    ret.vis_mask[p] <=> ret.array.a[p][1] # OBJECT_TO_IDX.unseen
        /\ AllSingle(pre.grid) /\ call.vis_mask = AllVisible(pre.grid) =>
              Encoding(ret.grid) = Encoding(pre.grid)

\* a round trip of a grid holding a locked door and a key
C15_Witness ==
    /\ call.op = "decode" /\ err = "none"
    /\ call.vis_mask = AllVisible(pre.grid)
    /\ AllSingle(pre.grid)
    /\ OccupantsOf({pre.grid.grid[k] : k \in DOMAIN pre.grid.grid}) = {"door_0", "key_0"}
    /\ Encoding(ret.grid) = Encoding(pre.grid)

----------------------------------------------------------------------------
(* Grid.process_vis *)

\* process_vis, a visible cell that never ends the sweep of its row
HaltsNever(os, cell) == FALSE

\* process_vis, the tests on a visible cell that end the sweep of its row:
\* the 'break' after the loop over a list cell is taken whatever the loop
\* found, the one for a single occupant when it cannot be seen behind
Halts(os, cell) ==
    IF cell.isList THEN TRUE
    ELSE Truthy(cell) /\ ~CanSeeBehind(os, cell.objs[1])

\* a mutant of process_vis: only the next cell of the row is marked
MarkRowOnly(mask, i, j, d) ==
    [p \in DOMAIN mask |-> mask[p] \/ p = <<i + d, j>>]

\* process_vis, the three assignments after the tests: the next cell of the
\* row (d = 1 going right, d = -1 going left) and, above row 0, the two
\* cells of the row j-1
Mark(mask, i, j, d) ==
    [p \in DOMAIN mask |->
        \/ mask[p]
        \/ p = <<i + d, j>>
        \/ j > 0 /\ p \in {<<i + d, j - 1>>, <<i, j - 1>>}]

RECURSIVE PassRight(_, _, _, _, _)
\* process_vis, 'for i in range(0, grid.width-1)' from i on
PassRight(os, g, mask, i, j) ==
    IF i > g.width - 2 THEN mask
    ELSE IF ~mask[<<i, j>>] THEN PassRight(os, g, mask, i + 1, j)
    ELSE IF Halts(os, GridGet(g, i, j)) THEN mask
    ELSE PassRight(os, g, Mark(mask, i, j, 1), i + 1, j)

RECURSIVE PassLeft(_, _, _, _, _)
\* process_vis, 'for i in reversed(range(1, grid.width))' from i on
PassLeft(os, g, mask, i, j) ==
    IF i < 1 THEN mask
    ELSE IF ~mask[<<i, j>>] THEN PassLeft(os, g, mask, i - 1, j)
    ELSE IF Halts(os, GridGet(g, i, j)) THEN mask
    ELSE PassLeft(os, g, Mark(mask, i, j, -1), i - 1, j)

RECURSIVE RowLoop(_, _, _, _)
\* process_vis, 'for j in reversed(range(0, grid.height))' from j on
RowLoop(os, g, mask, j) ==
    IF j < 0 THEN mask
    ELSE RowLoop(os, g,
                 PassLeft(os, g, PassRight(os, g, mask, 0, j), g.width - 1, j),
                 j - 1)

\* process_vis: the mask it returns
ProcessVisMask(os, g, agent_pos) ==
    RowLoop(os, g, [p \in Coords(g) |-> p = agent_pos], g.height - 1)

\* a mutant of process_vis: the last loop clears no cell
ProcessVisGridKept(g, mask) == g

\* process_vis, last loop: grid.set(i, j, None) where the mask is false
ProcessVisGrid(g, mask) ==
    [g EXCEPT !.grid = [k \in DOMAIN g.grid |->
        IF mask[<<(k - 1) % g.width, (k - 1) \div g.width>>]
        THEN g.grid[k] ELSE None]]

\* what the cells of the grids process_vis is called on hold
VisCells ==
    {Wall, Single("key_0"), List(<<"floor", "ball_0">>), List(<<"floor", "door_0">>)}

\* the sizes of the grids process_vis is called on
VisDims == {<<MinSize, MinSize>>, <<MinSize + 1, MinSize>>}

InitVis ==
    /\ \E d \in VisDims : grid \in FilledGrids(d[1], d[2], VisCells)
    /\ call = [op |-> "new", n |-> 0]
    /\ pre = NoSnap
    /\ err = "none"
    /\ ret = NoRet
    /\ agent = IdleAgent
    /\ NoEnv

\* mask = grid.process_vis(agent_pos)
CallProcessVis(agent_pos) ==
    /\ call.op = "new"
    /\ call' = [op |-> "process_vis", agent_pos |-> agent_pos, n |-> 1]
    /\ pre' = [grid |-> grid]
    /\ \E mask \in {ProcessVisMask(DefaultObjs, grid, agent_pos)} :
          /\ ret' = [mask |-> mask]
          /\ grid' = ProcessVisGrid(grid, mask)
    /\ err' = "none"
    /\ UNCHANGED <<agent, objs, step_count, last_action, action_done,
                   num_objs, actions>>

NextVis == \E p \in Coords(grid) : CallProcessVis(p)

SpecVis == InitVis /\ [][NextVis]_vars

\* a cell with an occupant that cannot be seen behind
Opaque(cell) ==
    \E n \in 1..Len(cell.objs) : ~CanSeeBehind(DefaultObjs, cell.objs[n])

\* the cells visibility can come to p from: the two next to it in its row,
\* and the one below it and the two diagonal ones in the row nearer the viewer
Sources(g, p) ==
    {q \in Coords(g) :
        \/ q[2] = p[2] /\ (q[1] = p[1] + 1 \/ q[1] = p[1] - 1)
        \/ q[2] = p[2] + 1 /\ q[1] \in (p[1] - 1)..(p[1] + 1)}

\* C16: process_vis marks the viewer's cell visible, and every other visible
\* cell has a visible neighbour (next to it in its row, or below it or
\* diagonal in the row nearer the viewer) that holds no opaque occupant.
C16_VisibleFromSeeThrough ==
    call.op = "process_vis" =>
        /\ ret.mask[call.agent_pos]
        /\ \A p \in Coords(grid) :
              ret.mask[p] /\ p # call.agent_pos =>
                  \E q \in Sources(grid, p) :
                      ret.mask[q] /\ ~Opaque(GridGet(pre.grid, q[1], q[2]))

\* a visible opaque cell, a cell hidden in the viewer's row or beyond, and a
\* visible cell two rows from the viewer
C16_Witness ==
    /\ call.op = "process_vis"
    /\ \E p \in Coords(grid) : ret.mask[p] /\ Opaque(GridGet(grid, p[1], p[2]))
    /\ \E p \in Coords(grid) : ~ret.mask[p] /\ p[2] <= call.agent_pos[2]
    /\ \E p \in Coords(grid) : ret.mask[p] /\ p[2] = call.agent_pos[2] - 2

\* the grid with the content of cell p replaced
WithCell(g, p, cell) == [g EXCEPT !.grid[p[2] * g.width + p[1] + 1] = cell]

\* C20: a visible cell holding a collection is treated as opaque if and only
\* if an occupant has can_seebehind = false: the mask is the one the same
\* grid gives with a wall in that cell when an occupant is opaque, and with
\* a single see-through occupant in it when none is.
C20_ListOpaqueIffAnyOpaque ==
    call.op = "process_vis" =>
        \A p \in Coords(grid) :
            ret.mask[p] /\ GridGet(pre.grid, p[1], p[2]).isList =>
                ret.mask = ProcessVisMask(DefaultObjs,
                               WithCell(pre.grid, p,
                                   IF Opaque(GridGet(pre.grid, p[1], p[2]))
                                   THEN Wall ELSE Single("key_0")),
                               call.agent_pos)

----------------------------------------------------------------------------
(* MiniGridEnv.gen_obs_grid and gen_obs, on a world grid with an agent *)

\* agent_view_size: the smallest the constructor accepts (odd, >= 3)
ViewSize == MinSize

\* Agent.get_view_exts: the top left corner of the window of view_size cells
\* that has the agent in the middle of the side behind it
ViewExts(ag) ==
    LET x == ag.cur_pos[1]
        y == ag.cur_pos[2]
    IN  CASE ag.dir = 0 -> <<x, y - ViewSize \div 2>>
          [] ag.dir = 1 -> <<x - ViewSize \div 2, y>>
          [] ag.dir = 2 -> <<x - ViewSize + 1, y - ViewSize \div 2>>
          [] ag.dir = 3 -> <<x - ViewSize \div 2, y - ViewSize + 1>>

RECURSIVE RotateTimes(_, _)
\* gen_obs_grid, 'for i in range(self.agent.dir + 1): grid = grid.rotate_left()'
RotateTimes(g, n) == IF n = 0 THEN g ELSE RotateTimes(GridRotateLeft(g), n - 1)

\* gen_obs_grid: the cell of the view the agent is in
ViewAgentPos(g) == <<g.width \div 2, g.height - 1>>

\* gen_obs_grid up to the visibility mask: the window, turned
ViewTurned(g, ag) ==
    RotateTimes(GridSlice(g, ViewExts(ag)[1], ViewExts(ag)[2], ViewSize, ViewSize),
                ag.dir + 1)

\* gen_obs_grid: the visibility mask of the turned window, all ones with
\* see_through_walls
ViewMask(turned, see_through_walls) ==
    IF see_through_walls THEN AllVisible(turned)
    ELSE ProcessVisMask(DefaultObjs, turned, ViewAgentPos(turned))

\* gen_obs_grid: the grid it returns: what process_vis left of the turned
\* window, and what is carried set in the agent's cell of it
ViewGrid(turned, vis_mask, carrying, see_through_walls) ==
    LET view == IF see_through_walls THEN turned
                ELSE ProcessVisGrid(turned, vis_mask)
    IN  IF carrying # <<>>
        THEN GridSet(view, ViewAgentPos(view)[1], ViewAgentPos(view)[2],
                     List(carrying))
        ELSE GridSet(view, ViewAgentPos(view)[1], ViewAgentPos(view)[2], None)

\* what the cells of the world grids hold
ObsCells == {Wall, Single("floor"), List(<<"floor", "door_0">>)}

\* where the agent is: the middle, an edge and a corner of the world
ObsPositions == {<<1, 1>>, <<MinSize - 1, 1>>, <<0, 0>>}

\* what the agent carries
ObsCarrying == {<<>>, <<"key_0">>, <<"key_0", "ball_0">>}

\* the agent is in a cell that is empty or that step() lets it enter
InitObs ==
    /\ grid \in FilledGrids(MinSize, MinSize, ObsCells)
    /\ \E p \in ObsPositions, d \in 0..3, c \in ObsCarrying :
          /\ GridGet(grid, p[1], p[2]) # Wall
          /\ agent = [cur_pos |-> p, dir |-> d, carrying |-> c]
    /\ call = [op |-> "new", n |-> 0]
    /\ pre = NoSnap
    /\ err = "none"
    /\ ret = NoRet
    /\ NoEnv

\* obs = self.gen_obs(), in an environment made with see_through_walls
CallGenObs(see_through_walls) ==
    /\ call.op = "new"
    /\ call' = [op |-> "gen_obs", see_through_walls |-> see_through_walls, n |-> 1]
    /\ pre' = [grid |-> grid, agent |-> agent]
    /\ grid' = GenObsWorld(grid, agent)
    /\ \E turned \in {ViewTurned(grid, agent)} :
       \E vis_mask \in {ViewMask(turned, see_through_walls)} :
       \E view \in {ViewGrid(turned, vis_mask, agent.carrying, see_through_walls)} :
          IF EncodeRaises(view, vis_mask)
          THEN /\ ret' = [grid |-> view, vis_mask |-> vis_mask]
               /\ err' = "AttributeError"
          ELSE /\ ret' = [grid |-> view, vis_mask |-> vis_mask,
                          image |-> GridEncode(DefaultObjs, view, vis_mask),
                          direction |-> ObsDirection(agent)]
               /\ err' = "none"
    /\ UNCHANGED <<agent, objs, step_count, last_action, action_done,
                   num_objs, actions>>

NextObs == \E t \in BOOLEAN : CallGenObs(t)

SpecObs == InitObs /\ [][NextObs]_vars

\* C17: when the agent carries objects, the grid gen_obs_grid returns holds
\* exactly the carried objects at (view_size//2, view_size-1) and gen_obs
\* encodes that cell as their encoding without error, whatever is in the
\* agent's cell of the world; when nothing is carried that cell is empty.
C17_CarriedInView ==
    call.op = "gen_obs" =>
        LET c == <<ViewSize \div 2, ViewSize - 1>>
            cell == ret.grid.grid[c[2] * ret.grid.width + c[1] + 1]
        IN  IF pre.agent.carrying = <<>> THEN cell.objs = <<>>
            ELSE /\ cell.objs = pre.agent.carrying
                 /\ err = "none"
                 /\ ret.image.a[c] =
                        <<ChannelSum(pre.agent.carrying, 1) % 256,
                          ChannelSum(pre.agent.carrying, 2) % 256,
                          ChannelSum(pre.agent.carrying, 3) % 256>>

----------------------------------------------------------------------------
(* MiniGridEnv.place_obj, on the grid of the scenario while it is filled *)

\* the largest max_tries place_obj is called with
MaxTries == 2

\* the grids _gen_objs goes through: the first k entries of the layout put
PlaceGrids ==
    {PutAll(NewGrid(Width, Height), SubSeq(ScenarioLayout, 1, k)) :
        k \in 0..Len(ScenarioLayout)}

\* agent.cur_pos while objects are placed: None, or a cell place_agent
\* has put the agent in
PlaceAgentPos == {<<>>} \cup StartCells

\* the 'top' arguments: None, and a corner left of the grid
PlaceTops == {<<>>, <<-1, 1>>}

\* the reject_fn arguments, each as the set of positions it rejects: None,
\* and a function rejecting row 1
PlaceRejects == {{}, {p \in (0..(Width - 1)) \X (0..(Height - 1)) : p[2] = 1}}

\* place_obj: top, as the rectangle's corner inside the grid
PlaceTop(top) ==
    IF top = <<>> THEN <<0, 0>>
    ELSE <<IF top[1] > 0 THEN top[1] ELSE 0, IF top[2] > 0 THEN top[2] ELSE 0>>

\* place_obj: the positions the two _rand_int calls can give, size being
\* None
PlaceSamples(g, top) ==
    (PlaceTop(top)[1]..(g.width - 1)) \X (PlaceTop(top)[2]..(g.height - 1))

\* place_obj: the test that ends the loop with the failure
TriesExceeded(num_tries, max_tries) == num_tries > max_tries

\* place_obj: the three tests that send the loop back to sample again
PlaceRejected(g, ag, reject, pos) ==
    \/ GridGet(g, pos[1], pos[2]) # None
    \/ pos = ag.cur_pos
    \/ pos \in reject

InitPlace ==
    /\ grid \in PlaceGrids
    /\ \E p \in PlaceAgentPos : agent = [IdleAgent EXCEPT !.cur_pos = p]
    /\ call = [op |-> "new", n |-> 0]
    /\ pre = NoSnap
    /\ err = "none"
    /\ ret = NoRet
    /\ NoEnv

\* self.place_obj(obj, top, reject_fn=reject, max_tries=max_tries), up to
\* 'num_tries = 0'
CallPlaceObj(obj, top, reject, max_tries) ==
    /\ call.op = "new"
    /\ call' = [op |-> "place_obj", obj |-> obj, top |-> top, reject |-> reject,
                max_tries |-> max_tries, num_tries |-> 0, samples |-> 0,
                pc |-> "loop", n |-> 1]
    /\ pre' = [grid |-> grid, agent |-> agent]
    /\ UNCHANGED <<grid, agent, objs, step_count, last_action, action_done,
                   num_objs, actions, ret, err>>

\* place_obj, the loop's first statement when it raises
PlaceRaise ==
    /\ call.op = "place_obj" /\ call.pc = "loop"
    /\ TriesExceeded(call.num_tries, call.max_tries)
    /\ call' = [call EXCEPT !.pc = "done"]
    /\ err' = "RecursionError"
    /\ UNCHANGED <<grid, agent, objs, step_count, last_action, action_done,
                   num_objs, actions, ret, pre>>

\* place_obj, one turn of the loop that samples pos, and what follows the
\* loop when pos is accepted
PlaceSample(pos) ==
    /\ call.op = "place_obj" /\ call.pc = "loop"
    /\ ~TriesExceeded(call.num_tries, call.max_tries)
    /\ pos \in PlaceSamples(grid, call.top)
    /\ IF PlaceRejected(grid, agent, call.reject, pos)
       THEN /\ call' = [call EXCEPT !.num_tries = @ + 1, !.samples = @ + 1]
            /\ UNCHANGED <<grid, ret>>
       ELSE /\ call' = [call EXCEPT !.num_tries = @ + 1, !.samples = @ + 1,
                                    !.pc = "done"]
            /\ grid' = GridSet(grid, pos[1], pos[2], call.obj)
            /\ ret' = [pos |-> pos]
    /\ UNCHANGED <<agent, objs, step_count, last_action, action_done,
                   num_objs, actions, pre, err>>

NextPlace ==
    \/ \E obj \in {None, Single("ball_0")}, top \in PlaceTops,
          reject \in PlaceRejects, max_tries \in 0..MaxTries :
          CallPlaceObj(obj, top, reject, max_tries)
    \/ PlaceRaise
    \/ \E pos \in Coords(grid) : PlaceSample(pos)

SpecPlace == InitPlace /\ [][NextPlace]_vars

\* C18: place_obj with a finite max_tries samples at most max_tries
\* positions; when it raises the failure the grid is not modified; when it
\* returns, the object was written to a cell that was empty, is not the
\* agent's position and was not rejected by reject_fn.
C18_PlaceObj ==
    call.op = "place_obj" =>
        /\ call.samples <= call.max_tries
        /\ err = "RecursionError" => grid = pre.grid
        /\ call.pc = "done" /\ err = "none" =>
              /\ pre.grid.grid[ret.pos[2] * pre.grid.width + ret.pos[1] + 1] = None
              /\ ret.pos # agent.cur_pos
              /\ ret.pos \notin call.reject
              /\ grid = [pre.grid EXCEPT
                            !.grid[ret.pos[2] * pre.grid.width + ret.pos[1] + 1] = call.obj]

----------------------------------------------------------------------------
(* MiniGridEnv.hash: what is fed to the digest, for two states *)

\* array.tolist(): the array as a list of columns of triples
ToList(array) ==
    [i \in 1..array.width |-> [j \in 1..array.height |-> array.a[<<i - 1, j - 1>>]]]

\* hash: str(item) of the three items, in the order they are fed to sha256
HashInput(g, ag) ==
    ToString(ToList(GridEncode(DefaultObjs, g, AllVisible(g))))
        \o ToString(ag.cur_pos) \o ToString(ag.dir)

\* what the cells of the grids hashed hold
HashCells ==
    {Single("key_0"), Single("key_1"), List(<<"floor", "ball_0">>),
     List(<<"ball_0", "floor">>)}

\* the states the second hash is taken of: the first one, and the ones that
\* differ from it in one cell, in the agent's position or in its direction
OtherStates(g, ag) ==
    {[grid |-> g, agent |-> ag]}
        \cup {w \in {[grid |-> [g EXCEPT !.grid[k] = c], agent |-> ag] :
                        k \in DOMAIN g.grid, c \in HashCells \cup {None}} :
                 NamedOnce(w.grid)}
        \cup {[grid |-> g, agent |-> [ag EXCEPT !.cur_pos = p]] : p \in Coords(g)}
        \cup {[grid |-> g, agent |-> [ag EXCEPT !.dir = d]] : d \in 0..3}

InitHash ==
    /\ grid \in FilledGrids(MinSize, MinSize, HashCells)
    /\ agent = [IdleAgent EXCEPT !.cur_pos = <<1, 1>>]
    /\ call = [op |-> "new", n |-> 0]
    /\ pre = NoSnap
    /\ err = "none"
    /\ ret = NoRet
    /\ NoEnv

\* env.hash() in this state, its input being input, and in another one
CallHash(input, other) ==
    /\ call.op = "new"
    /\ call' = [op |-> "hash", other |-> other, n |-> 1]
    /\ pre' = [grid |-> grid, agent |-> agent]
    /\ ret' = [input |-> input, other |-> HashInput(other.grid, other.agent)]
    /\ UNCHANGED <<grid, agent, objs, step_count, last_action, action_done,
                   num_objs, actions, err>>

NextHash ==
    \E input \in {HashInput(grid, agent)}, other \in OtherStates(grid, agent) :
        CallHash(input, other)

SpecHash == InitHash /\ [][NextHash]_vars

\* C19: two states with the same occupant layout, agent position and agent
\* direction have the same fingerprint input, and two states that differ in
\* occupant layout, agent position or agent direction have different
\* fingerprint inputs.
C19_FingerprintInputs ==
    call.op = "hash" =>
        (ret.input = ret.other
            <=> /\ call.other.grid = grid
                /\ call.other.agent.cur_pos = agent.cur_pos
                /\ call.other.agent.dir = agent.dir)

----------------------------------------------------------------------------
(* More properties of Grid.set and Grid.remove, checked under SpecGrid *)

\* C21: after any sequence of in-bounds set and remove calls no cell holds
\* an empty collection: a cell with no occupant is None.
C21_NoEmptyList ==
    \A k \in DOMAIN grid.grid : grid.grid[k].objs = <<>> => grid.grid[k] = None

\* a remove call that found a list of one occupant and left the cell None
C21_Witness ==
    /\ call.op = "remove" /\ err = "none"
    /\ InBounds(pre.grid, call.i, call.j)
    /\ pre.grid.grid[Idx(pre.grid, call.i, call.j)].isList
    /\ Len(pre.grid.grid[Idx(pre.grid, call.i, call.j)].objs) = 1
    /\ grid.grid[Idx(grid, call.i, call.j)] = None

----------------------------------------------------------------------------
(* More properties of process_vis, checked under SpecVis *)

\* C22: when process_vis returns, every cell whose mask bit is false is
\* empty and every cell whose mask bit is true has the content it had
\* before the call.
C22_ClearsHidden ==
    call.op = "process_vis" =>
        \A p \in Coords(grid) :
            grid.grid[p[2] * grid.width + p[1] + 1] =
                IF ret.mask[p]
                THEN pre.grid.grid[p[2] * grid.width + p[1] + 1]
                ELSE [isList |-> FALSE, objs |-> <<>>]

\* a hidden list cell that was cleared and a visible occupied cell that was
\* kept
C22_Witness ==
    /\ call.op = "process_vis"
    /\ \E p \in Coords(grid) :
          /\ ~ret.mask[p]
          /\ GridGet(pre.grid, p[1], p[2]).isList
          /\ GridGet(grid, p[1], p[2]) = None
    /\ \E p \in Coords(grid) :
          /\ ret.mask[p]
          /\ GridGet(grid, p[1], p[2]) # None

\* no cell outside row 0, the row farthest from the viewer, holds an opaque
\* occupant or a list
NoOccluder(g) ==
    \A p \in Coords(g) :
        p[2] > 0 => /\ ~GridGet(g, p[1], p[2]).isList
                    /\ ~Opaque(GridGet(g, p[1], p[2]))

\* C23: if no cell outside the row farthest from the viewer holds an opaque
\* occupant or a collection, process_vis with the viewer at
\* (width//2, height-1) marks every cell visible and clears no cell.
C23_FullyVisible ==
    /\ call.op = "process_vis"
    /\ call.agent_pos = <<grid.width \div 2, grid.height - 1>>
    /\ NoOccluder(pre.grid)
    => /\ \A p \in Coords(grid) : ret.mask[p]
       /\ grid = pre.grid

\* a view with a wall in the farthest row and a key nearer, seen from the
\* middle of the nearest row
C23_Witness ==
    /\ call.op = "process_vis"
    /\ call.agent_pos = <<grid.width \div 2, grid.height - 1>>
    /\ NoOccluder(pre.grid)
    /\ \E p \in Coords(grid) : p[2] = 0 /\ GridGet(pre.grid, p[1], p[2]) = Wall
    /\ \E p \in Coords(grid) : p[2] > 0 /\ GridGet(pre.grid, p[1], p[2]) = Single("key_0")
    /\ \A p \in Coords(grid) : ret.mask[p]

----------------------------------------------------------------------------
(* MiniGridEnv.place_agent, one turn of the loop of place_obj at a time *)

\* the grids place_agent is called on: the scenario's, the scenario's with
\* one more wall, in its one empty cell next to no object instance, and
\* an empty one
AgentGrids ==
    {GenGrid,
     PutAll(NewGrid(Width, Height), Append(ScenarioLayout, <<"wall", 1, 2>>)),
     NewGrid(Width, Height)}

\* place_agent, the loop over obj_instances: some instance on the grid is
\* 'nextto' the position
NextToInstance(g, pos) ==
    \E p \in Coords(g) :
        /\ NextTo(pos[1], pos[2], p[1], p[2])
        /\ \E n \in 1..Len(GridGet(g, p[1], p[2]).objs) :
              GridGet(g, p[1], p[2]).objs[n] \in DOMAIN ScenarioObjs

InitAgent ==
    /\ grid \in AgentGrids
    /\ agent = IdleAgent
    /\ call = [op |-> "new", n |-> 0]
    /\ pre = NoSnap
    /\ err = "none"
    /\ ret = NoRet
    /\ NoEnv

\* self.place_agent(max_tries=max_tries), up to the first 'num_tries = 0'
\* of place_obj
CallPlaceAgent(max_tries) ==
    /\ call.op = "new"
    /\ call' = [op |-> "place_agent", max_tries |-> max_tries, num_tries |-> 0,
                pc |-> "loop", n |-> 1]
    /\ pre' = [grid |-> grid, agent |-> agent]
    /\ agent' = [agent EXCEPT !.cur_pos = <<>>]
    /\ UNCHANGED <<grid, objs, step_count, last_action, action_done,
                   num_objs, actions, ret, err>>

\* place_obj within place_agent, the loop's first statement when it raises
AgentRaise ==
    /\ call.op = "place_agent" /\ call.pc = "loop"
    /\ TriesExceeded(call.num_tries, call.max_tries)
    /\ call' = [call EXCEPT !.pc = "done"]
    /\ err' = "RecursionError"
    /\ UNCHANGED <<grid, agent, objs, step_count, last_action, action_done,
                   num_objs, actions, ret, pre>>

\* place_obj within place_agent, one turn of its loop that samples pos; when
\* pos is accepted place_obj returns it (grid.set(*pos, None) on a cell that
\* is None), and place_agent calls place_obj again if an instance is next
\* to pos, else draws the direction d and returns
AgentSample(pos, d) ==
    /\ call.op = "place_agent" /\ call.pc = "loop"
    /\ ~TriesExceeded(call.num_tries, call.max_tries)
    /\ pos \in PlaceSamples(grid, <<>>)
    /\ IF PlaceRejected(grid, agent, {}, pos)
       THEN /\ call' = [call EXCEPT !.num_tries = @ + 1]
            /\ UNCHANGED <<agent, ret>>
       ELSE IF NextToInstance(grid, pos)
       THEN /\ call' = [call EXCEPT !.num_tries = 0]
            /\ agent' = [agent EXCEPT !.cur_pos = pos]
            /\ UNCHANGED ret
       ELSE /\ call' = [call EXCEPT !.num_tries = @ + 1, !.pc = "done"]
            /\ agent' = [agent EXCEPT !.cur_pos = pos, !.dir = d]
            /\ ret' = [pos |-> pos]
    /\ UNCHANGED <<grid, objs, step_count, last_action, action_done,
                   num_objs, actions, pre, err>>

NextAgent ==
    \/ \E max_tries \in 0..MaxTries : CallPlaceAgent(max_tries)
    \/ AgentRaise
    \/ \E pos \in Coords(grid), d \in 0..3 : AgentSample(pos, d)

\* a call that can take a step takes one: the interpreter does not stop;
\* and self._rand_int leaves out no position for ever
SpecAgent ==
    /\ InitAgent /\ [][NextAgent]_vars
    /\ WF_vars(NextAgent)
    /\ \A pos \in (0..(Width - 1)) \X (0..(Height - 1)) :
          SF_vars(\E d \in 0..3 : AgentSample(pos, d))

\* C24: place_agent called with a finite max_tries terminates: it returns a
\* position or raises the rejection-sampling failure.
C24_PlaceAgentTerminates ==
    (call.op = "place_agent") ~> (call.op = "place_agent" /\ call.pc = "done")

----------------------------------------------------------------------------
(* More properties of gen_obs, checked under SpecObs *)

\* C25: generating an observation never changes the world grid: every cell
\* has the same occupants in the same order after the call as before,
\* also when the agent stands on a cell of several occupants and carries
\* objects.
C25_WorldUnchanged == call.op = "gen_obs" => grid = pre.grid

----------------------------------------------------------------------------
(* Grid.horz_wall, Grid.vert_wall and Grid.wall_rect.  A wall loop that    *)
(* leaves the grid stops at the failing assert of Grid.set, with the walls *)
(* set so far in place: [g, ok] is the grid and whether the loops so far   *)
(* ran to their end.                                                       *)

RECURSIVE WallLoop(_, _)
\* for ... : self.set(i, j, obj_type()), over the cells in order
WallLoop(s, cells) ==
    IF cells = <<>> \/ ~s.ok THEN s
    ELSE IF InBounds(s.g, cells[1][1], cells[1][2])
    THEN WallLoop([g |-> GridSet(s.g, cells[1][1], cells[1][2], Wall), ok |-> TRUE],
                  Tail(cells))
    ELSE [g |-> s.g, ok |-> FALSE]

\* horz_wall(x, y, length), called with a length as wall_rect does
HorzWall(s, x, y, length) == WallLoop(s, [i \in 1..length |-> <<x + i - 1, y>>])

\* vert_wall(x, y, length), called with a length as wall_rect does
VertWall(s, x, y, length) == WallLoop(s, [j \in 1..length |-> <<x, y + j - 1>>])

\* wall_rect(x, y, w, h): two horizontal walls, then two vertical ones
WallRect(g, x, y, w, h) ==
    VertWall(VertWall(HorzWall(HorzWall([g |-> g, ok |-> TRUE], x, y, w),
                               x, y + h - 1, w),
                      x, y, h),
             x + w - 1, y, h)

\* what the cells of the grids hold before the walls are built
WallCells == {Single("floor")}

\* the sizes of the grids walls are built on
WallDims == {<<MinSize, MinSize>>, <<MinSize + 1, MinSize>>}

InitWalls ==
    /\ \E d \in WallDims : grid \in FilledGrids(d[1], d[2], WallCells)
    /\ call = [op |-> "new", n |-> 0]
    /\ pre = NoSnap
    /\ err = "none"
    /\ ret = NoRet
    /\ agent = IdleAgent
    /\ NoEnv

\* grid.wall_rect(x, y, w, h)
CallWallRect(x, y, w, h) ==
    /\ call.op = "new"
    /\ call' = [op |-> "wall_rect", x |-> x, y |-> y, w |-> w, h |-> h, n |-> 1]
    /\ pre' = [grid |-> grid]
    /\ \E s \in {WallRect(grid, x, y, w, h)} :
          /\ grid' = s.g
          /\ err' = IF s.ok THEN "none" ELSE "AssertionError"
    /\ UNCHANGED <<agent, objs, step_count, last_action, action_done,
                   num_objs, actions, ret>>

\* the rectangles: inside the grid, or one cell too wide or too high
NextWalls ==
    \E x \in 0..(grid.width - 1), y \in 0..(grid.height - 1) :
        \E w \in 1..(grid.width - x + 1), h \in 1..(grid.height - y + 1) :
            CallWallRect(x, y, w, h)

SpecWalls == InitWalls /\ [][NextWalls]_vars

\* the cells wall_rect(x, y, w, h) is to fill: the border of the rectangle
Perimeter(x, y, w, h) ==
    {p \in (x..(x + w - 1)) \X (y..(y + h - 1)) :
        p[1] \in {x, x + w - 1} \/ p[2] \in {y, y + h - 1}}

\* C26: after wall_rect(x, y, w, h) on a grid whose cells on the rectangle's
\* perimeter were empty, every perimeter cell, corners included, holds
\* exactly one wall, and every cell not on the perimeter is unchanged.
C26_WallRect ==
    (/\ call.op = "wall_rect" /\ err = "none"
     /\ \A p \in Perimeter(call.x, call.y, call.w, call.h) :
            GridGet(pre.grid, p[1], p[2]) = None)
    => \A p \in Coords(grid) :
          IF p \in Perimeter(call.x, call.y, call.w, call.h)
          THEN GridGet(grid, p[1], p[2]).objs = <<"wall">>
          ELSE GridGet(grid, p[1], p[2]) = GridGet(pre.grid, p[1], p[2])

----------------------------------------------------------------------------
(* More properties of reset() and step(), checked under Spec *)

\* C27: after reset() and after any sequence of step() calls the agent's
\* position is a coordinate inside the world grid: a forward step never
\* moves the agent to a cell outside it.
C27_AgentInBounds == InBounds(grid, agent.cur_pos[1], agent.cur_pos[2])

\* a forward step has moved the agent to the edge of the grid, facing out
C27_Witness ==
    /\ call.op = "step" /\ call.branch = "forward" /\ err = "none"
    /\ agent.cur_pos = FrontPos(pre.agent)
    /\ ~InBounds(grid, FrontPos(agent)[1], FrontPos(agent)[2])

====
